---------------------------- MODULE Spec2Model ----------------------------
(***************************************************************************)
(* FitgirlRepackDownloader.py: the download queue of MainWindow, the       *)
(* DownloaderWorker thread that drains it, the chunk tasks of its thread   *)
(* pool, and the queued signals that carry the worker's events to the      *)
(* window.                                                                 *)
(*                                                                         *)
(* A string is a sequence of one-character strings.  The status icons are  *)
(* single tokens: "P" the clock (pending), "A" the arrow (started), "C"    *)
(* the check mark (completed), "F" the cross (failed).                     *)
(***************************************************************************)
EXTENDS Integers, Sequences, FiniteSets, TLC

VARIABLES
    list_widget,   \* MainWindow.list_widget: the texts of its items, in order
    worker,        \* MainWindow.worker: 0 (None) or the id of a DownloaderWorker
    bar,           \* MainWindow.overall_progress_bar: value, maximum, format
    threads,       \* the DownloaderWorker objects (fields, thread position, pool)
    events,        \* signals emitted by worker threads, queued for the GUI thread
    loads,         \* number of link lists loaded into the queue so far
    session_file,  \* what SESSION_FILE holds on disk
    app,           \* the application process: "on" while the window exists
    meter          \* the speed meter of a worker: update_speed_metrics' state

vars == <<list_widget, worker, bar, threads, events, loads, session_file, app, meter>>

-----------------------------------------------------------------------------
(* Bounds of the model *)

MaxQueue == 2       \* links in one loaded list
MaxLoads == 2       \* link lists loaded (file, clipboard, drop)
MaxWorkers == 1     \* DownloaderWorker objects alive at once
MaxOrphans == 1     \* worker objects the window let go of while their thread runs
MaxChunks == 2      \* chunk tasks of the largest file
MaxBuffers == 1     \* buffers a single-stream response delivers
MaxRecords == 2     \* records of a session file found on disk
MaxSpans == 5       \* whole chunks of the largest file that is partitioned
MaxClock == 34      \* clock ticks (0.1 s) of a metered run
MaxUpdates == 3     \* progress updates of one metered item

(* Program constants *)

ChunkSize == 4 * 1024 * 1024     \* chunk_size, and the threshold of download_file
PoolSize == 8                    \* ThreadPoolExecutor(max_workers=8)
Attempts == 3                    \* for attempt in range(3)
BufSize == 8192                  \* iter_content(chunk_size=8192)
SpeedInterval == 5               \* if time_diff > 0.5, in ticks of 0.1 s
PacingSleep == 20                \* time.sleep(2) between two items, in ticks

PENDING == "P"
ACTIVE == "A"
COMPLETED == "C"
FAILED == "F"

\* The links a list may hold: what re.findall(r'https?://[^\s#]+') returns
\* never contains a space.  <<"a">> is a substring of <<"a", "b">>.
Links == {<<"a">>, <<"a", "b">>, <<"c">>}

LinkLists == UNION {[1..n -> Links] : n \in 1..MaxQueue}

\* Content-Length values a probe may report (0: no header).  SmallSizes are
\* those of files no larger than one chunk.
SmallSizes == {0, 1024, ChunkSize}

Sizes == SmallSizes \cup {k * ChunkSize + 1 : k \in 1..(MaxChunks - 1)}
                    \cup {k * ChunkSize : k \in 2..MaxChunks}

\* Accept-Ranges header values of the origin (the first: no header), and
\* the word download_file looks for
Bytes == <<"b", "y", "t", "e", "s">>
AcceptRanges == {<<>>, Bytes, <<"n", "o", "n", "e">>}

\* The DownloaderWorker objects of a run of the model
WorkerIds == 1..MaxWorkers
Workers == DOMAIN threads

None == <<>>

-----------------------------------------------------------------------------
(* Strings *)

\* sub in s
Contains(sub, s) ==
    \E i \in 1..(Len(s) - Len(sub) + 1) : SubSeq(s, i, i + Len(sub) - 1) = sub

\* s.split(" ", 1)[-1]
SplitLast(s) ==
    IF \E i \in 1..Len(s) : s[i] = " "
    THEN LET p == CHOOSE i \in 1..Len(s) :
                      s[i] = " " /\ \A j \in 1..(i - 1) : s[j] # " "
         IN SubSeq(s, p + 1, Len(s))
    ELSE s

\* f"{prefix} {base}"
ItemText(prefix, base) == <<prefix, " ">> \o base

\* s.startswith((check mark, cross))
IsTerminalText(s) == Len(s) > 0 /\ s[1] \in {COMPLETED, FAILED}

Icon(s) == IF Len(s) > 0 THEN s[1] ELSE ""

\* range(start, stop, step)
RECURSIVE Range(_, _, _)
Range(start, stop, step) ==
    IF start >= stop THEN <<>>
    ELSE <<start>> \o Range(start + step, stop, step)

Min(a, b) == IF a < b THEN a ELSE b

-----------------------------------------------------------------------------
(* MainWindow: the queue *)

\* The index of the item _update_link_status changes: the first whose text
\* contains link_text; 0 when there is none.
MatchIndex(items, link_text) ==
    IF \E i \in 1..Len(items) : Contains(link_text, items[i])
    THEN CHOOSE i \in 1..Len(items) :
             /\ Contains(link_text, items[i])
             /\ \A j \in 1..(i - 1) : ~Contains(link_text, items[j])
    ELSE 0

\* _update_link_status(link_text, prefix)
UpdateLinkStatus(items, link_text, prefix) ==
    LET i == MatchIndex(items, link_text)
    IN IF i = 0 THEN items
       ELSE [items EXCEPT ![i] = ItemText(prefix, SplitLast(items[i]))]

\* links_to_download of start_download
RECURSIVE LinksToDownload(_)
LinksToDownload(items) ==
    IF items = <<>> THEN <<>>
    ELSE IF IsTerminalText(Head(items)) THEN LinksToDownload(Tail(items))
         ELSE <<SplitLast(Head(items))>> \o LinksToDownload(Tail(items))

\* reset_ui_for_new_download(total_links), the overall progress bar
ResetBar(total_links) ==
    IF total_links > 0
    THEN [value |-> 0, maximum |-> total_links, format |-> <<"files", 0, total_links>>]
    ELSE [value |-> 0, maximum |-> 100, format |-> <<"waiting">>]

\* update_overall_progress(completed, total); QProgressBar.setValue ignores a
\* value outside the bar's range
UpdateOverallProgress(b, completed, total) ==
    [b EXCEPT !.value = IF completed \in 0..b.maximum THEN completed ELSE @,
              !.format = <<"files", completed, total>>]

-----------------------------------------------------------------------------
(* MainWindow: the session file *)

\* SESSION_FILE does not exist; or holds text json.load rejects; or holds
\* the JSON value data
NoFile == [kind |-> "absent", data |-> <<>>]
InvalidFile == [kind |-> "invalid", data |-> <<>>]

\* json.dump(session_data, f): the text holds the value, json.load returns it
JsonDump(session_data) == [kind |-> "json", data |-> session_data]

\* SplitFirst, leaving the separating space with the link
SplitFirstKeepingSpace(s) ==
    LET p == CHOOSE i \in 1..Len(s) :
                 s[i] = " " /\ \A j \in 1..(i - 1) : s[j] # " "
    IN <<SubSeq(s, 1, p - 1), SubSeq(s, p, Len(s))>>

\* text.split(" ", 1) of an item's text: every item holds a space, written
\* by addItem(f"... {link}") or by load_session
SplitFirst(s) ==
    LET p == CHOOSE i \in 1..Len(s) :
                 s[i] = " " /\ \A j \in 1..(i - 1) : s[j] # " "
    IN <<SubSeq(s, 1, p - 1), SubSeq(s, p + 1, Len(s))>>

\* session_data of save_session
SessionData(items) ==
    [i \in 1..Len(items) |->
        [status |-> SplitFirst(items[i])[1], link |-> SplitFirst(items[i])[2]]]

\* f"{item_data['status']} {item_data['link']}"
RecordText(item_data) == item_data.status \o <<" ">> \o item_data.link

\* item_data['status'] and item_data['link'] exist
HasFields(item_data) == {"status", "link"} \subseteq DOMAIN item_data

\* The items load_session's loop adds before it ends or a record raises
RECURSIVE LoadedItems(_)
LoadedItems(session_data) ==
    IF session_data = <<>> THEN <<>>
    ELSE IF HasFields(Head(session_data))
         THEN <<RecordText(Head(session_data))>> \o LoadedItems(Tail(session_data))
         ELSE <<>>

\* load_session: the queue it leaves.  A missing file or a json.load error
\* returns before list_widget.clear()
LoadSession(file, items) ==
    IF file.kind = "json" THEN LoadedItems(file.data) ELSE items

\* The records a session file on disk may hold: written by an earlier
\* save_session, or lacking a field
FileRecords ==
    {[status |-> <<st>>, link |-> l] :
         st \in {PENDING, ACTIVE, COMPLETED, FAILED}, l \in {<<"a">>, <<"c">>}}
    \cup {[status |-> <<COMPLETED>>], [link |-> <<"a">>]}

SessionFiles ==
    {NoFile, InvalidFile}
    \cup {JsonDump(d) : d \in UNION {[1..n -> FileRecords] : n \in 0..MaxRecords}}

-----------------------------------------------------------------------------
(* DownloaderWorker: the speed meter *)

\* A worker object before its first update_speed_metrics: the attributes
\* _last_update_time and _last_downloaded do not exist.  now is time.time()
\* in ticks, item and downloaded the item being transferred and its byte
\* count, reported the updates the item has made; updates, progress, rates (the last two) and
\* base_item are history: the calls made, the file_progress signals, the
\* speed signals, and the item whose update set the baseline.
FreshMeter ==
    [has |-> FALSE, last_update_time |-> 0, last_downloaded |-> 0,
     now |-> 0, item |-> 1, downloaded |-> 0, reported |-> 0,
     updates |-> 0, progress |-> 0, rates |-> <<>>, base_item |-> 0]

\* The speed signals remembered: the one before the newest, and the newest
Recent(rates, rate) ==
    IF rates = <<>> THEN <<rate>> ELSE <<rates[Len(rates)], rate>>

\* UpdateSpeedMetrics, keeping _last_update_time after a speed signal
UpdateSpeedMetricsKeepingTime(m, downloaded, current_time) ==
    LET m1 == [m EXCEPT !.progress = @ + 1]
        m2 == IF m1.has THEN m1
              ELSE [m1 EXCEPT !.has = TRUE, !.last_update_time = current_time,
                              !.last_downloaded = downloaded, !.base_item = m.item]
        time_diff == current_time - m2.last_update_time
    IN IF time_diff > SpeedInterval
       THEN [m2 EXCEPT !.rates = Recent(@, [time |-> current_time,
                                            bytes |-> downloaded - m2.last_downloaded,
                                            time_diff |-> time_diff,
                                            item |-> m.item,
                                            base_item |-> m2.base_item]),
                       !.last_downloaded = downloaded,
                       !.base_item = m.item]
       ELSE m2

\* update_speed_metrics(downloaded, current_time) on meter m
UpdateSpeedMetrics(m, downloaded, current_time) ==
    LET m1 == [m EXCEPT !.progress = @ + 1]
        m2 == IF m1.has THEN m1
              ELSE [m1 EXCEPT !.has = TRUE, !.last_update_time = current_time,
                              !.last_downloaded = downloaded, !.base_item = m.item]
        time_diff == current_time - m2.last_update_time
    IN IF time_diff > SpeedInterval
       THEN [m2 EXCEPT !.rates = Recent(@, [time |-> current_time,
                                            bytes |-> downloaded - m2.last_downloaded,
                                            time_diff |-> time_diff,
                                            item |-> m.item,
                                            base_item |-> m2.base_item]),
                       !.last_update_time = current_time,
                       !.last_downloaded = downloaded,
                       !.base_item = m.item]
       ELSE m2

-----------------------------------------------------------------------------
(* DownloaderWorker objects *)

\* DownloaderWorker.__init__, before start(); intact and log are history:
\* whether the queue was left alone since the run began, and the signals
\* the thread emitted.
FreshWorker ==
    [pc |-> "idle", links |-> <<>>, active |-> TRUE, is_paused |-> FALSE,
     lock |-> 0, idx |-> 0, total_size |-> 0, accept_ranges |-> <<>>,
     downloaded |-> 0,
     tasks |-> <<>>, yielded |-> {}, cur |-> 0, nbuf |-> 0,
     log |-> <<>>, intact |-> TRUE]

\* QThread.isRunning()
IsRunning(w) == threads[w].pc \notin {"idle", "done"}

Signal(name, w, link, completed, total) ==
    [sig |-> name, src |-> w, link |-> link, completed |-> completed, total |-> total]

\* A worker object can be replaced by a new one once its thread has ended,
\* the window no longer refers to it and none of its signals is pending.
Free(w) ==
    /\ ~IsRunning(w)
    /\ worker # w
    /\ \A i \in 1..Len(events) : events[i].src # w

Init ==
    /\ list_widget = <<>>
    /\ worker = 0
    /\ bar = ResetBar(0)
    /\ threads = [w \in WorkerIds |-> FreshWorker]
    /\ events = <<>>
    /\ loads = 0
    /\ session_file = NoFile
    /\ app = "on"
    /\ meter = FreshMeter

-----------------------------------------------------------------------------
(* MainWindow: the operator's actions, run by the GUI thread *)

\* _populate_queue_with_links(links, source_name) with a non-empty list, as
\* select_input_file, load_from_clipboard and dropEvent call it
Populate(lists) ==
    /\ loads < MaxLoads
    /\ \E links \in lists :
           list_widget' = [i \in 1..Len(links) |-> ItemText(PENDING, links[i])]
    /\ loads' = loads + 1
    /\ threads' = [w \in Workers |->
                      IF threads[w].pc = "idle" THEN threads[w]
                      ELSE [threads[w] EXCEPT !.intact = FALSE]]
    /\ UNCHANGED <<worker, bar, events, session_file, app, meter>>

PopulateQueue == Populate(LinkLists)

\* action_stack.currentIndex(): start_download shows the Pause and Stop
\* page when it has set self.worker, on_download_finished shows the
\* Download page when it has set self.worker to None.
ActionStack == IF worker = 0 THEN 0 ELSE 1

\* start_download, the slot of the Download button, which is on page 0 of
\* the action stack
StartDownload ==
    /\ ActionStack = 0
    /\ ~(worker # 0 /\ IsRunning(worker))
    /\ LinksToDownload(list_widget) # <<>>
    /\ \E w \in Workers :
           /\ Free(w)
           /\ \A v \in Workers : Free(v) => w <= v
           /\ threads' = [threads EXCEPT ![w] =
                             [FreshWorker EXCEPT !.pc = "loop", !.idx = 1,
                                                 !.links = LinksToDownload(list_widget)]]
           /\ worker' = w
    /\ bar' = ResetBar(Len(LinksToDownload(list_widget)))
    /\ UNCHANGED <<list_widget, events, loads, session_file, app, meter>>

\* DownloaderWorker.toggle_pause: the flag is flipped under the lock.  The
\* count of requests a task issued during the current pause starts anew.
TogglePause(t) ==
    [t EXCEPT !.is_paused = ~@,
              !.tasks = [k \in 1..Len(t.tasks) |-> [t.tasks[k] EXCEPT !.since = 0]]]

\* toggle_pause_resume
TogglePauseResume ==
    /\ worker # 0
    /\ threads[worker].lock = 0
    /\ threads' = [threads EXCEPT ![worker] = TogglePause(@)]
    /\ UNCHANGED <<list_widget, worker, bar, events, loads, session_file, app, meter>>

\* DownloaderWorker.stop: the flag is cleared without the lock
Stop(t) == [t EXCEPT !.active = FALSE]

\* stop_download
StopDownload ==
    /\ worker # 0
    /\ threads' = [threads EXCEPT ![worker] = Stop(@)]
    /\ UNCHANGED <<list_widget, worker, bar, events, loads, session_file, app, meter>>

\* on_download_finished(was_cleared): the window's reference and the bar
OnDownloadFinishedBar(was_cleared) ==
    IF was_cleared THEN ResetBar(0)
    ELSE IF worker # 0
         THEN [bar EXCEPT !.format = IF bar.value = bar.maximum
                                     THEN <<"Completed!">> ELSE <<"Stopped.">>]
         ELSE bar

\* clear_session
ClearSession ==
    /\ threads' = [w \in Workers |->
                      LET t == IF w = worker THEN Stop(threads[w]) ELSE threads[w]
                      IN IF t.pc = "idle" THEN t ELSE [t EXCEPT !.intact = FALSE]]
    /\ list_widget' = <<>>
    /\ worker' = 0
    /\ bar' = OnDownloadFinishedBar(TRUE)
    /\ UNCHANGED <<events, loads, session_file, app, meter>>

\* The GUI thread runs the slot connected to the oldest pending signal.
Deliver ==
    /\ events # <<>>
    /\ LET e == Head(events) IN
       /\ events' = Tail(events)
       /\ list_widget' =
              IF e.sig = "started" THEN UpdateLinkStatus(list_widget, e.link, ACTIVE)
              ELSE IF e.sig = "completed" THEN UpdateLinkStatus(list_widget, e.link, COMPLETED)
              ELSE IF e.sig = "failed" THEN UpdateLinkStatus(list_widget, e.link, FAILED)
              ELSE list_widget
       /\ bar' = IF e.sig = "progress" THEN UpdateOverallProgress(bar, e.completed, e.total)
                 ELSE IF e.sig = "finished" THEN OnDownloadFinishedBar(FALSE)
                 ELSE bar
       /\ worker' = IF e.sig = "finished" THEN 0 ELSE worker
    /\ UNCHANGED <<threads, loads, session_file, app, meter>>

-----------------------------------------------------------------------------
(* DownloaderWorker.run, one step of the worker thread at a time *)

\* Locals of one item, dropped when the loop moves on
ItemLocals(t) ==
    [t EXCEPT !.total_size = 0, !.accept_ranges = <<>>, !.downloaded = 0,
              !.tasks = <<>>,
              !.yielded = {}, !.cur = 0, !.nbuf = 0]

\* A signal emitted by thread w, which moves on as record t
Emit(w, t, name, link, completed, total) ==
    /\ threads' = [threads EXCEPT ![w] =
           [t EXCEPT !.log = Append(@, <<name, link, completed, total>>)]]
    /\ events' = Append(events, Signal(name, w, link, completed, total))

Move(w, t) ==
    /\ threads' = [threads EXCEPT ![w] = t]
    /\ UNCHANGED events

\* Raise, with the except clause wrapped around the loop instead of the
\* item: the failure is reported and the loop is left
RaiseLeavingLoop(w) ==
    LET t == threads[w]
    IN Emit(w, [t EXCEPT !.pc = "loop", !.idx = Len(t.links) + 1],
            "failed", t.links[t.idx], 0, 0)

\* except Exception: link_failed_signal.emit(link)
Raise(w) ==
    LET t == threads[w]
    IN Emit(w, [t EXCEPT !.pc = "finally"], "failed", t.links[t.idx], 0, 0)

\* PausePassed, without the test of is_paused
PausePassedUnchecked(t) == t.lock = 0

\* _check_pause passes: the lock is taken, is_paused read False, the lock released
PausePassed(t) == t.lock = 0 /\ ~t.is_paused

\* for idx, link in enumerate(...): if not self.active: break; after the
\* loop the thread ends and QThread emits finished
LoopHead(w) ==
    LET t == threads[w] IN
    /\ t.pc = "loop"
    /\ IF t.idx > Len(t.links) \/ ~t.active
       THEN Emit(w, [t EXCEPT !.pc = "done"], "finished", <<>>, 0, 0)
       ELSE Move(w, [t EXCEPT !.pc = "started"])
    /\ UNCHANGED <<list_widget, worker, bar, loads, session_file, app, meter>>

\* link_started_signal.emit(link)
EmitStarted(w) ==
    LET t == threads[w] IN
    /\ t.pc = "started"
    /\ Emit(w, [t EXCEPT !.pc = "pl_pause"], "started", t.links[t.idx], 0, 0)
    /\ UNCHANGED <<list_widget, worker, bar, loads, session_file, app, meter>>

\* process_link: self._check_pause()
ProcessLinkPause(w) ==
    LET t == threads[w] IN
    /\ t.pc = "pl_pause"
    /\ PausePassed(t)
    /\ Move(w, [t EXCEPT !.pc = "pl_active"])
    /\ UNCHANGED <<list_widget, worker, bar, loads, session_file, app, meter>>

\* process_link: if not self.active: raise Exception("Session stopped.")
ProcessLinkActive(w) ==
    LET t == threads[w] IN
    /\ t.pc = "pl_active"
    /\ IF ~t.active THEN Raise(w)
       ELSE Move(w, [t EXCEPT !.pc = "resolve"])
    /\ UNCHANGED <<list_widget, worker, bar, loads, session_file, app, meter>>

\* UseChunked, taking a file of exactly 4 MiB as large
UseChunkedFromThreshold(total_size, accept_ranges) ==
    total_size >= ChunkSize /\ Contains(Bytes, accept_ranges)

\* download_file: the choice of the transfer
UseChunked(total_size, accept_ranges) ==
    total_size > ChunkSize /\ Contains(Bytes, accept_ranges)

\* The page request, the extraction and the two HEAD requests: any of them
\* may raise; otherwise the origin decides the size and the range support.
\* download_file sends its HEAD request, and reads Accept-Ranges, only for a
\* file larger than 4 MiB.
Resolve(w, sizes) ==
    LET t == threads[w] IN
    /\ t.pc = "resolve"
    /\ \/ Raise(w)
       \/ \E size \in sizes, accept_ranges \in AcceptRanges :
              Move(w, [t EXCEPT !.total_size = size,
                                !.accept_ranges = IF size > ChunkSize
                                                  THEN accept_ranges ELSE <<>>,
                                !.pc = IF UseChunked(size, accept_ranges)
                                       THEN "submit" ELSE "st_open"])
    /\ UNCHANGED <<list_widget, worker, bar, loads, session_file, app, meter>>

\* if self.active: link_completed_signal.emit(link)
AfterDownload(w) ==
    LET t == threads[w] IN
    /\ t.pc = "after"
    /\ IF t.active
       THEN Emit(w, [t EXCEPT !.pc = "finally"], "completed", t.links[t.idx], 0, 0)
       ELSE Move(w, [t EXCEPT !.pc = "finally"])
    /\ UNCHANGED <<list_widget, worker, bar, loads, session_file, app, meter>>

\* The position after an item's finally clause and the pacing sleep
NextItem(t) == [ItemLocals(t) EXCEPT !.pc = "loop", !.idx = @ + 1]

\* finally: if self.active: overall_progress_signal.emit(idx + 1, total_links)
Finally(w) ==
    LET t == threads[w] IN
    /\ t.pc = "finally"
    /\ IF t.active
       THEN Emit(w, NextItem(t), "progress", <<>>, t.idx, Len(t.links))
       ELSE Move(w, NextItem(t))
    /\ UNCHANGED <<list_widget, worker, bar, loads, session_file, app, meter>>

-----------------------------------------------------------------------------
(* single_thread_download *)

\* requests.get(url, stream=True); r.raise_for_status()
StreamOpen(w) ==
    LET t == threads[w] IN
    /\ t.pc = "st_open"
    /\ \/ Raise(w)
       \/ Move(w, [t EXCEPT !.pc = "st_next", !.downloaded = 0])
    /\ UNCHANGED <<list_widget, worker, bar, loads, session_file, app, meter>>

\* for chunk in r.iter_content(chunk_size=8192): a buffer arrives, the body
\* ends, or the transport raises
StreamNext(w) ==
    LET t == threads[w] IN
    /\ t.pc = "st_next"
    /\ \/ Raise(w)
       \/ Move(w, [t EXCEPT !.pc = "after"])
       \/ /\ t.nbuf < MaxBuffers
          /\ Move(w, [t EXCEPT !.pc = "st_pause"])
    /\ UNCHANGED <<list_widget, worker, bar, loads, session_file, app, meter>>

\* self._check_pause()
StreamPause(w) ==
    LET t == threads[w] IN
    /\ t.pc = "st_pause"
    /\ PausePassed(t)
    /\ Move(w, [t EXCEPT !.pc = "st_active"])
    /\ UNCHANGED <<list_widget, worker, bar, loads, session_file, app, meter>>

\* if not self.active: break; f.write(chunk); downloaded += len(chunk)
StreamWrite(w) ==
    LET t == threads[w] IN
    /\ t.pc = "st_active"
    /\ IF ~t.active THEN Move(w, [t EXCEPT !.pc = "after"])
       ELSE Move(w, [t EXCEPT !.pc = "st_next", !.nbuf = @ + 1,
                              !.downloaded = @ + BufSize])
    /\ UNCHANGED <<list_widget, worker, bar, loads, session_file, app, meter>>

-----------------------------------------------------------------------------
(* chunked_download and the chunk tasks of its pool *)

\* ChunkTask, with the end of the range not clipped to the file
ChunkTaskUnclipped(start, total_size) ==
    [start |-> start, end |-> start + ChunkSize,
     pc |-> "queued", attempt |-> 0, result |-> None, issued |-> 0, since |-> 0]

\* One submitted download_chunk(url, start, end, path).  issued counts the
\* range requests the task has sent, since those it sent while is_paused was
\* set and not toggled since.
ChunkTask(start, total_size) ==
    [start |-> start, end |-> Min(start + ChunkSize, total_size),
     pc |-> "queued", attempt |-> 0, result |-> None, issued |-> 0, since |-> 0]

\* The futures of the dict comprehension, in submission order
SubmittedTasks(total_size) ==
    LET starts == Range(0, total_size, ChunkSize)
    IN [k \in 1..Len(starts) |-> ChunkTask(starts[k], total_size)]

\* open(path, 'wb') and truncate may raise; otherwise every chunk task is
\* submitted to the pool
Submit(w) ==
    LET t == threads[w] IN
    /\ t.pc = "submit"
    /\ \/ Raise(w)
       \/ Move(w, [t EXCEPT !.pc = "as_completed", !.downloaded = 0,
                            !.tasks = SubmittedTasks(t.total_size)])
    /\ UNCHANGED <<list_widget, worker, bar, loads, session_file, app, meter>>

TaskEnded(task) == task.pc \in {"done", "cancelled"}

Occupied(t) == {k \in 1..Len(t.tasks) : t.tasks[k].pc \notin {"queued", "done", "cancelled"}}

SetTask(w, k, task) ==
    /\ threads' = [threads EXCEPT ![w].tasks[k] = task]
    /\ UNCHANGED <<list_widget, worker, bar, events, loads, session_file, app, meter>>

\* A pool thread takes the task: at most max_workers run at once
TaskStart(w, k) ==
    LET t == threads[w] IN
    /\ k \in DOMAIN t.tasks
    /\ t.tasks[k].pc = "queued"
    /\ Cardinality(Occupied(t)) < PoolSize
    /\ SetTask(w, k, [t.tasks[k] EXCEPT !.pc = "pause"])

\* download_chunk: self._check_pause()
TaskPause(w, k) ==
    LET t == threads[w] IN
    /\ k \in DOMAIN t.tasks
    /\ t.tasks[k].pc = "pause"
    /\ PausePassed(t)
    /\ SetTask(w, k, [t.tasks[k] EXCEPT !.pc = "active"])

\* Exhausted, one attempt late: range(4)
ExhaustedLate(attempt) == attempt + 1 > Attempts

\* for attempt in range(3): the attempts are used up when the loop ends
Exhausted(attempt) == attempt + 1 >= Attempts

\* download_chunk: if not self.active: return None; otherwise
\* requests.get(url, headers=headers, stream=True, timeout=20) is sent
TaskRequest(w, k) ==
    LET t == threads[w] IN
    /\ k \in DOMAIN t.tasks
    /\ t.tasks[k].pc = "active"
    /\ SetTask(w, k, IF ~t.active
                     THEN [t.tasks[k] EXCEPT !.pc = "done", !.result = None]
                     ELSE [t.tasks[k] EXCEPT !.pc = "inflight", !.issued = @ + 1,
                                             !.since = IF t.is_paused THEN @ + 1 ELSE @])

\* except Exception: time.sleep(1), then the next attempt or return None
AfterError(task) ==
    IF Exhausted(task.attempt)
    THEN [task EXCEPT !.pc = "done", !.result = None, !.attempt = @ + 1]
    ELSE [task EXCEPT !.pc = "pause", !.attempt = @ + 1]

\* The request, raise_for_status or entering the lock raises
TaskError(w, k) ==
    LET t == threads[w] IN
    /\ k \in DOMAIN t.tasks
    /\ t.tasks[k].pc = "inflight"
    /\ SetTask(w, k, AfterError(t.tasks[k]))

\* with self._lock: the task holds the lock from here
TaskLock(w, k) ==
    LET t == threads[w] IN
    /\ k \in DOMAIN t.tasks
    /\ t.tasks[k].pc = "inflight"
    /\ t.lock = 0
    /\ threads' = [threads EXCEPT ![w].tasks[k].pc = "write", ![w].lock = k]
    /\ UNCHANGED <<list_widget, worker, bar, events, loads, session_file, app, meter>>

\* Under the lock r.content reads the body and f.write stores it; the
\* task returns len(r.content), or the read or the write raises
TaskWrite(w, k) ==
    LET t == threads[w] IN
    /\ k \in DOMAIN t.tasks
    /\ t.tasks[k].pc = "write"
    /\ \/ threads' = [threads EXCEPT ![w].lock = 0,
                          ![w].tasks[k].pc = "done",
                          ![w].tasks[k].result = <<t.tasks[k].end - t.tasks[k].start>>]
       \/ threads' = [threads EXCEPT ![w].lock = 0,
                          ![w].tasks[k] = AfterError(t.tasks[k])]
    /\ UNCHANGED <<list_widget, worker, bar, events, loads, session_file, app, meter>>

\* for future in as_completed(futures): the next ended future, or the end
\* of the loop once every future was yielded
AsCompleted(w) ==
    LET t == threads[w] IN
    /\ t.pc = "as_completed"
    /\ IF t.yielded = 1..Len(t.tasks)
       THEN Move(w, [t EXCEPT !.pc = "cd_exit"])
       ELSE \E k \in 1..Len(t.tasks) :
                /\ k \notin t.yielded
                /\ TaskEnded(t.tasks[k])
                /\ Move(w, [t EXCEPT !.pc = "cd_pause", !.cur = k,
                                     !.yielded = @ \cup {k}])
    /\ UNCHANGED <<list_widget, worker, bar, loads, session_file, app, meter>>

\* chunked_download: self._check_pause()
ChunkedPause(w) ==
    LET t == threads[w] IN
    /\ t.pc = "cd_pause"
    /\ PausePassed(t)
    /\ Move(w, [t EXCEPT !.pc = "cd_active"])
    /\ UNCHANGED <<list_widget, worker, bar, loads, session_file, app, meter>>

\* executor.shutdown(wait=False, cancel_futures=True)
CancelFutures(tasks) ==
    [k \in 1..Len(tasks) |->
        IF tasks[k].pc = "queued" THEN [tasks[k] EXCEPT !.pc = "cancelled"]
        ELSE tasks[k]]

\* if chunk_data_size: downloaded += chunk_data_size
AddResult(downloaded, result) ==
    IF result # None /\ result[1] # 0 THEN downloaded + result[1] ELSE downloaded

\* ChunkedResult, raising for a future that returned None
ChunkedResultStrict(w) ==
    LET t == threads[w] IN
    /\ t.pc = "cd_active"
    /\ IF ~t.active
       THEN Move(w, [t EXCEPT !.pc = "cd_exit", !.tasks = CancelFutures(@)])
       ELSE IF t.tasks[t.cur].result = None
            THEN Raise(w)
            ELSE Move(w, [t EXCEPT !.pc = "as_completed",
                                   !.downloaded = AddResult(@, t.tasks[t.cur].result)])
    /\ UNCHANGED <<list_widget, worker, bar, loads, session_file, app, meter>>

\* if not self.active: shutdown and break; else the future's result is added
ChunkedResult(w) ==
    LET t == threads[w] IN
    /\ t.pc = "cd_active"
    /\ IF ~t.active
       THEN Move(w, [t EXCEPT !.pc = "cd_exit", !.tasks = CancelFutures(@)])
       ELSE Move(w, [t EXCEPT !.pc = "as_completed",
                              !.downloaded = AddResult(@, t.tasks[t.cur].result)])
    /\ UNCHANGED <<list_widget, worker, bar, loads, session_file, app, meter>>

\* The with block of the executor ends: shutdown(wait=True) returns once no
\* task is running, and chunked_download returns
ChunkedExit(w) ==
    LET t == threads[w] IN
    /\ t.pc = "cd_exit"
    /\ \A k \in 1..Len(t.tasks) : TaskEnded(t.tasks[k])
    /\ Move(w, [t EXCEPT !.pc = "after"])
    /\ UNCHANGED <<list_widget, worker, bar, loads, session_file, app, meter>>

-----------------------------------------------------------------------------

\* The run loop of thread w, the origin reporting a size of sizes
RunStep(w, sizes) ==
    \/ LoopHead(w)
    \/ EmitStarted(w)
    \/ ProcessLinkPause(w)
    \/ ProcessLinkActive(w)
    \/ Resolve(w, sizes)
    \/ AfterDownload(w)
    \/ Finally(w)

StreamStep(w) ==
    \/ StreamOpen(w)
    \/ StreamNext(w)
    \/ StreamPause(w)
    \/ StreamWrite(w)

ChunkedStep(w) ==
    \/ Submit(w)
    \/ AsCompleted(w)
    \/ ChunkedPause(w)
    \/ ChunkedResult(w)
    \/ ChunkedExit(w)

TaskStep(w, k) ==
    \/ TaskStart(w, k)
    \/ TaskPause(w, k)
    \/ TaskRequest(w, k)
    \/ TaskError(w, k)
    \/ TaskLock(w, k)
    \/ TaskWrite(w, k)

\* Every step a worker thread or one of its pool threads can take
WorkerStep(w) ==
    \/ RunStep(w, Sizes)
    \/ StreamStep(w)
    \/ ChunkedStep(w)
    \/ \E k \in 1..MaxChunks : TaskStep(w, k)

-----------------------------------------------------------------------------
(* The application: the operator loads lists, starts, pauses, stops and    *)
(* clears, while the origin serves files no larger than one chunk, so that *)
(* download_file always takes single_thread_download.                      *)

Next ==
    \/ PopulateQueue
    \/ StartDownload
    \/ TogglePauseResume
    \/ StopDownload
    \/ ClearSession
    \/ Deliver
    \/ \E w \in Workers : RunStep(w, SmallSizes)
    \/ \E w \in Workers : StreamStep(w)

Spec == Init /\ [][Next]_vars

-----------------------------------------------------------------------------
(* One download session: a list was loaded and START DOWNLOAD pressed.     *)

\* The window and the worker right after start_download on the loaded links
Started(links) ==
    /\ list_widget = [i \in 1..Len(links) |-> ItemText(PENDING, links[i])]
    /\ worker = 1
    /\ bar = ResetBar(Len(links))
    /\ threads = [w \in WorkerIds |->
                     IF w = 1 THEN [FreshWorker EXCEPT !.pc = "loop", !.idx = 1,
                                                       !.links = links]
                     ELSE FreshWorker]
    /\ events = <<>>
    /\ loads = 1
    /\ session_file = NoFile
    /\ app = "on"
    /\ meter = FreshMeter

\* Any loaded list; the origin serves files no larger than one chunk, and
\* the operator pauses, resumes and stops.
InitSession == \E links \in LinkLists : Started(links)

NextSession ==
    \/ TogglePauseResume
    \/ StopDownload
    \/ Deliver
    \/ \E w \in Workers : RunStep(w, SmallSizes)
    \/ \E w \in Workers : StreamStep(w)

SessionSpec == InitSession /\ [][NextSession]_vars

\* One link; the origin serves files of every size, with and without range
\* support, and the operator pauses, resumes and stops.
InitPool == Started(<< <<"c">> >>)

NextPool ==
    \/ TogglePauseResume
    \/ StopDownload
    \/ Deliver
    \/ \E w \in Workers : WorkerStep(w)

PoolSpec == InitPool /\ [][NextPool]_vars

\* The scheduler lets a worker thread or pool thread that can take a step
\* take one; the operator is under no obligation to press anything.
FairPoolSpec == PoolSpec /\ WF_vars(\E w \in Workers : WorkerStep(w))

-----------------------------------------------------------------------------
(* chunked_download's partition of a file, for files of every size *)

\* Sizes around every multiple of the chunk size, 10 MiB among them
PartitionSizes ==
    {k * ChunkSize + r : k \in 0..MaxSpans,
                         r \in {0, 1, 1024, BufSize, 2 * 1024 * 1024, ChunkSize - 1}}

\* The worker is about to run chunked_download on a file of some size
InitPartition ==
    /\ \E size \in PartitionSizes :
           threads = [w \in WorkerIds |->
                         IF w = 1
                         THEN [FreshWorker EXCEPT !.pc = "submit", !.idx = 1,
                                                  !.links = << <<"c">> >>,
                                                  !.total_size = size,
                                                  !.accept_ranges = Bytes]
                         ELSE FreshWorker]
    /\ list_widget = <<ItemText(ACTIVE, <<"c">>)>>
    /\ worker = 1
    /\ bar = ResetBar(1)
    /\ events = <<>>
    /\ loads = 1
    /\ session_file = NoFile
    /\ app = "on"
    /\ meter = FreshMeter

NextPartition == \E w \in Workers : Submit(w)

PartitionSpec == InitPartition /\ [][NextPartition]_vars

-----------------------------------------------------------------------------
(* The session file across runs of the application: the window loads it    *)
(* when it is built and saves it when it is closed.                        *)

\* The process is gone: the window, its queue and its worker with it
ProcessEnds ==
    /\ app' = "off"
    /\ list_widget' = <<>>
    /\ worker' = 0
    /\ bar' = ResetBar(0)
    /\ threads' = [w \in Workers |-> FreshWorker]
    /\ events' = <<>>

\* MainWindow.__init__: the empty queue, then load_session()
Startup ==
    /\ app = "off"
    /\ app' = "on"
    /\ list_widget' = LoadSession(session_file, <<>>)
    /\ UNCHANGED <<worker, bar, threads, events, loads, session_file, meter>>

\* What save_session leaves on disk: the dumped session; the old file when
\* open() raises; a truncated file when the write raises
SaveSession(file, items) ==
    {JsonDump(SessionData(items)), file, InvalidFile}

\* closeEvent: save_session(), worker.stop(), the event is accepted
CloseEvent ==
    /\ app = "on"
    /\ session_file' \in SaveSession(session_file, list_widget)
    /\ ProcessEnds
    /\ UNCHANGED <<loads, meter>>

\* The process ends without closeEvent: killed, crashed, power lost
Kill ==
    /\ app = "on"
    /\ ProcessEnds
    /\ UNCHANGED <<loads, session_file, meter>>

InitPersist ==
    /\ app = "off"
    /\ session_file \in SessionFiles
    /\ list_widget = <<>>
    /\ worker = 0
    /\ bar = ResetBar(0)
    /\ threads = [w \in WorkerIds |-> FreshWorker]
    /\ events = <<>>
    /\ loads = 0
    /\ meter = FreshMeter

NextPersist ==
    \/ Startup
    \/ CloseEvent
    \/ Kill
    \/ app = "on" /\ PopulateQueue
    \/ app = "on" /\ ClearSession

PersistSpec == InitPersist /\ [][NextPersist]_vars

-----------------------------------------------------------------------------
(* The speed meter of one worker over the items of its run: each transfer  *)
(* counts its bytes from 0 and reports every buffer or chunk it stored.    *)

\* time.time() advances by one tick
Tick ==
    /\ meter.now < MaxClock
    /\ meter' = [meter EXCEPT !.now = @ + 1]
    /\ UNCHANGED <<list_widget, worker, bar, threads, events, loads, session_file, app>>

\* downloaded += len(chunk); self.update_speed_metrics(downloaded, time.time())
MeterUpdate ==
    /\ meter.reported < MaxUpdates
    /\ \E n \in {BufSize} :
           meter' = UpdateSpeedMetrics(
                        [meter EXCEPT !.downloaded = @ + n, !.updates = @ + 1,
                                      !.reported = @ + 1],
                        meter.downloaded + n, meter.now)
    /\ UNCHANGED <<list_widget, worker, bar, threads, events, loads, session_file, app>>

\* The transfer ends, run() sleeps 2 s and the next item's transfer starts
\* with downloaded = 0
MeterNextItem ==
    /\ meter.now + PacingSleep <= MaxClock
    /\ meter' = [meter EXCEPT !.item = @ + 1, !.downloaded = 0, !.reported = 0,
                              !.now = @ + PacingSleep]
    /\ UNCHANGED <<list_widget, worker, bar, threads, events, loads, session_file, app>>

NextMeter == Tick \/ MeterUpdate \/ MeterNextItem

MeterSpec == Init /\ [][NextMeter]_vars

-----------------------------------------------------------------------------
(* A session that is closed while its queue is being downloaded, and the   *)
(* next start of the application.                                          *)

NextShutdown ==
    \/ CloseEvent
    \/ Startup
    \/ StartDownload
    \/ Deliver
    \/ \E w \in Workers : RunStep(w, SmallSizes)
    \/ \E w \in Workers : StreamStep(w)

ShutdownSpec == InitSession /\ [][NextShutdown]_vars

-----------------------------------------------------------------------------
(* The window and the worker objects it created, those it no longer refers *)
(* to included: clear_session drops the reference while the thread is      *)
(* still in run(), and the thread keeps its object alive until it returns. *)
(* The queue holds one link and has been loaded once.                      *)

OneLink == {<< <<"c">> >>}

InitOrphan ==
    /\ list_widget = <<ItemText(PENDING, <<"c">>)>>
    /\ worker = 0
    /\ bar = ResetBar(0)
    /\ threads = [w \in 1..(MaxWorkers + MaxOrphans) |-> FreshWorker]
    /\ events = <<>>
    /\ loads = 1
    /\ session_file = NoFile
    /\ app = "on"
    /\ meter = FreshMeter

NextOrphan ==
    \/ Populate(OneLink)
    \/ StartDownload
    \/ TogglePauseResume
    \/ StopDownload
    \/ ClearSession
    \/ Deliver
    \/ \E w \in Workers : RunStep(w, {1024})
    \/ \E w \in Workers : StreamStep(w)

OrphanSpec == InitOrphan /\ [][NextOrphan]_vars

-----------------------------------------------------------------------------
(* Properties *)

LinkOf(i) == SplitLast(list_widget[i])

DistinctLinks ==
    \A i, j \in DOMAIN list_widget : i # j => LinkOf(i) # LinkOf(j)

ActiveItems == {i \in DOMAIN list_widget : Icon(list_widget[i]) = ACTIVE}

\* The run loop of w has ended and the window has handled all its signals
RunEnded(w) ==
    /\ threads[w].pc = "done"
    /\ \A i \in 1..Len(events) : events[i].src # w

\* The signals w emitted for the item at position j of its log: a terminal
\* one follows the started signal
Settled(log, j) ==
    \E m \in (j + 1)..Len(log) :
        log[m][1] \in {"completed", "failed"} /\ log[m][2] = log[j][2]

\* C1: after a full run without a stop request, every item of the queue is
\* recorded Completed or Failed, whatever links were queued (here even for
\* lists whose links are pairwise different).
C1_FullRunSettlesEveryItem ==
    \A w \in Workers :
        (RunEnded(w) /\ threads[w].active /\ threads[w].intact /\ DistinctLinks)
            => \A i \in DOMAIN list_widget :
                   Icon(list_widget[i]) \in {COMPLETED, FAILED}

\* C2: once the run loop has ended, every item that was started has been
\* reported Completed or Failed, also when stop() arrived while it was
\* being resolved or transferred: none is left Active.
C2_StoppedItemIsSettled ==
    \A w \in Workers :
        threads[w].pc = "done"
            => \A j \in 1..Len(threads[w].log) :
                   threads[w].log[j][1] = "started" => Settled(threads[w].log, j)


\* C3: once stop() has been requested the run loop ends, whatever the pause
\* flag is.
C3_StopEndsRun ==
    \A w \in WorkerIds : (~threads[w].active) ~> (threads[w].pc = "done")

\* C4: while is_paused is set no chunk task sends a range request.
C4_NoRequestWhilePaused ==
    \A w \in Workers : \A k \in DOMAIN threads[w].tasks :
        threads[w].tasks[k].since = 0

\* C4, amended: a chunk task sends at most one range request between a
\* pause request and the next toggle; it had passed its pause check before
\* the pause, and its next attempt waits for the resume.
C4_AtMostOneRequestWhilePaused ==
    \A w \in Workers : \A k \in DOMAIN threads[w].tasks :
        threads[w].tasks[k].since <= 1

\* A task that sent a request after the pause now waits in its pause check
C4_Witness ==
    \E w \in Workers : \E k \in DOMAIN threads[w].tasks :
        /\ threads[w].is_paused
        /\ threads[w].tasks[k].since = 1
        /\ threads[w].tasks[k].pc = "pause"

\* C5: after a stop request no chunk task is submitted to the pool, and no
\* chunk task that has not sent a request yet sends one.
C5_StopSubmitsNothing ==
    [][\A w \in Workers :
          ~threads[w].active =>
              /\ Len(threads'[w].tasks) <= Len(threads[w].tasks)
              /\ \A k \in DOMAIN threads[w].tasks \cap DOMAIN threads'[w].tasks :
                     threads[w].tasks[k].issued = 0
                         => threads'[w].tasks[k].issued = 0]_vars


\* The signals of a run that processed every link in order: started, then
\* completed or failed, then the overall progress, for each link in turn,
\* and finished at the end
FullRunLog(log, links) ==
    /\ Len(log) = 3 * Len(links) + 1
    /\ \A i \in 1..Len(links) :
           /\ log[3 * i - 2] = <<"started", links[i], 0, 0>>
           /\ log[3 * i - 1] \in {<<"completed", links[i], 0, 0>>,
                                  <<"failed", links[i], 0, 0>>}
           /\ log[3 * i] = <<"progress", <<>>, i, Len(links)>>
    /\ log[Len(log)][1] = "finished"

\* C6: a failing item is reported Failed, it alone, and the run goes on: a
\* run that was not stopped has processed every link in order, each with
\* one verdict, and its last overall progress is (n, n), which the bar
\* shows once the window has handled the signals.
C6_FailureNeverAbortsRun ==
    \A w \in Workers :
        /\ (threads[w].pc = "done" /\ threads[w].active)
               => FullRunLog(threads[w].log, threads[w].links)
        /\ (RunEnded(w) /\ threads[w].active)
               => (bar.value = Len(threads[w].links) /\ bar.value = bar.maximum)

\* A run of two or more links whose first failed and whose second completed
C6_Witness ==
    \E w \in Workers :
        /\ RunEnded(w)
        /\ threads[w].active
        /\ Len(threads[w].links) >= 2
        /\ threads[w].log[2][1] = "failed"
        /\ threads[w].log[5][1] = "completed"

\* C7: a signal the window handles never changes an item that is Completed
\* or Failed (here even in a queue of pairwise different links), and
\* start_download hands a worker only the links of the other items.
C7_TerminalStatusIsFinal ==
    [][/\ (events # <<>> /\ events' = Tail(events) /\ DistinctLinks)
           => \A i \in DOMAIN list_widget :
                  IsTerminalText(list_widget[i]) => list_widget'[i] = list_widget[i]
       /\ \A w \in Workers :
              (~IsRunning(w) /\ threads'[w].pc = "loop")
                  => Len(threads'[w].links) =
                         Cardinality({i \in DOMAIN list_widget :
                                         ~IsTerminalText(list_widget[i])})]_vars

\* C8: at no time are two items of the queue Active.
C8_AtMostOneActive == Cardinality(ActiveItems) <= 1


\* A chunk task that returned None because its attempts were used up
GaveUp(task) == task.pc = "done" /\ task.result = None /\ task.attempt = Attempts

\* C9: no chunk task sends more than 3 range requests, and when no stop
\* was requested a task returns None only after exactly 3 of them failed.
C9_ExactlyThreeAttempts ==
    \A w \in Workers : \A k \in DOMAIN threads[w].tasks :
        LET task == threads[w].tasks[k] IN
        /\ task.issued <= Attempts
        /\ (threads[w].active /\ task.pc = "done" /\ task.result = None)
               => (task.issued = Attempts /\ task.attempt = Attempts)
        /\ (task.pc = "done" /\ task.result # None) => task.attempt < Attempts

\* A task of a session that was not stopped gave up after its third request
C9_Witness ==
    \E w \in Workers : \E k \in DOMAIN threads[w].tasks :
        /\ threads[w].active
        /\ GaveUp(threads[w].tasks[k])
        /\ threads[w].tasks[k].issued = 3

LastSignal(t) == t.log[Len(t.log)]

\* C10: when a chunk task gave up, chunked_download still returns normally:
\* the item is not reported Failed; unless a stop was requested it is
\* reported Completed, and the bytes counted stay below total_size.
C10_GivenUpChunkStillCompletes ==
    \A w \in Workers :
        LET t == threads[w] IN
        (t.pc = "finally" /\ \E k \in DOMAIN t.tasks : GaveUp(t.tasks[k]))
            => /\ LastSignal(t)[1] # "failed"
               /\ t.active => LastSignal(t) = <<"completed", t.links[t.idx], 0, 0>>
               /\ LastSignal(t)[1] = "completed" => t.downloaded < t.total_size

\* One chunk was written, another gave up, and the item was reported Completed
C10_Witness ==
    \E w \in Workers :
        LET t == threads[w] IN
        /\ t.pc = "finally"
        /\ \E k \in DOMAIN t.tasks : GaveUp(t.tasks[k])
        /\ LastSignal(t)[1] = "completed"
        /\ t.downloaded > 0
        /\ t.downloaded < t.total_size

\* The length of the range of a chunk task
SpanLen(task) == task.end - task.start

\* C11: the ranges chunked_download submits for a file of total_size bytes
\* cover [0, total_size) once, in order, without gap or overlap: the first
\* starts at 0, each starts where the one before ends, the last ends at
\* total_size; all but the last are 4 MiB long and the last is the
\* remainder (4 MiB when the remainder is 0); a file of 0 bytes gives no
\* range, one of 10 MiB ranges of 4, 4 and 2 MiB.
C11_PartitionIsExact ==
    \A w \in Workers :
        LET t == threads[w]
            n == Len(t.tasks)
            S == 4 * 1024 * 1024
        IN t.pc = "as_completed" =>
            /\ (t.total_size = 0) <=> (n = 0)
            /\ n > 0 => (t.tasks[1].start = 0 /\ t.tasks[n].end = t.total_size)
            /\ \A k \in 1..(n - 1) :
                   /\ t.tasks[k].end = t.tasks[k + 1].start
                   /\ SpanLen(t.tasks[k]) = S
            /\ n > 0 => SpanLen(t.tasks[n]) =
                            (IF t.total_size % S = 0 THEN S ELSE t.total_size % S)
            /\ t.total_size = 10 * 1024 * 1024 =>
                   [k \in 1..n |-> SpanLen(t.tasks[k])] =
                       <<4 * 1024 * 1024, 4 * 1024 * 1024, 2 * 1024 * 1024>>

\* The tasks of a 10 MiB file have been submitted
C11_Witness ==
    \E w \in Workers :
        /\ threads[w].pc = "as_completed"
        /\ threads[w].total_size = 10 * 1024 * 1024
        /\ Len(threads[w].tasks) = 3

\* Where the worker is inside chunked_download, inside single_thread_download
ChunkedPcs == {"submit", "as_completed", "cd_pause", "cd_active", "cd_exit"}
StreamPcs == {"st_open", "st_next", "st_pause", "st_active"}

\* The origin's file is larger than 4 MiB and its Accept-Ranges names bytes
LargeWithRanges(t) ==
    t.total_size > 4 * 1024 * 1024 /\ t.accept_ranges = Bytes

\* C12: the worker is in the chunked transfer only for a file larger than
\* 4 MiB from an origin that advertises byte ranges, and in the
\* single-stream transfer only in the other cases, where it has no chunk
\* task and so sends no range request.
C12_ChunkedIffLargeWithRanges ==
    \A w \in Workers :
        LET t == threads[w] IN
        /\ t.pc \in ChunkedPcs => LargeWithRanges(t)
        /\ t.pc \in StreamPcs => (~LargeWithRanges(t) /\ t.tasks = <<>>)

\* A file larger than 4 MiB from an origin that answers Accept-Ranges: none
\* is being fetched as a single stream
C12_Witness ==
    \E w \in Workers :
        /\ threads[w].pc = "st_next"
        /\ threads[w].total_size > 4 * 1024 * 1024
        /\ threads[w].accept_ranges = <<"n", "o", "n", "e">>

\* C13: whatever the queue holds, load_session applied to the file
\* save_session writes for it gives back the same items, with the same
\* statuses and links, in the same order.
C13_SessionRoundTrip ==
    app = "on" => LoadSession(JsonDump(SessionData(list_widget)), <<>>) = list_widget

\* A restored queue of two items with different statuses, one Completed
C13_Witness ==
    /\ app = "on"
    /\ Len(list_widget) = 2
    /\ Icon(list_widget[1]) = COMPLETED
    /\ Icon(list_widget[2]) = ACTIVE
    /\ LinkOf(1) # LinkOf(2)

\* C14: when clear_session has run, the session file holds the (empty)
\* queue.
C14_ClearWritesSessionFile ==
    [][(app = "on" /\ ClearSession)
           => session_file' = JsonDump(SessionData(list_widget'))]_vars

\* json.load rejects the file, or one of its records lacks a field
Malformed(file) ==
    \/ file.kind = "invalid"
    \/ file.kind = "json" /\ \E i \in DOMAIN file.data : ~HasFields(file.data[i])

\* C20: started on a session file that cannot be parsed in full, the
\* window has an empty queue.
C20_MalformedFileGivesEmptyQueue ==
    [][(app = "off" /\ app' = "on" /\ Malformed(session_file))
           => list_widget' = <<>>]_vars

\* Task k of t is inside `with self._lock:` and has not evaluated r.content
\* yet: the body of its streamed response is still to be received
ReceivingUnderLock(t, k) == t.lock = k /\ t.tasks[k].pc = "write"

\* C15: no chunk task holds the lock while the body of its range response
\* is being received.
C15_LockNotHeldAcrossTransfer ==
    \A w \in Workers : \A k \in DOMAIN threads[w].tasks :
        ~ReceivingUnderLock(threads[w], k)

\* C16: a step that writes active or is_paused, and the step of
\* chunked_download that reads active, is taken by a thread holding the
\* lock: no other thread holds it when the step is taken.
C16_FlagsAccessedUnderLock ==
    [][\A w \in Workers :
          /\ (threads'[w].active # threads[w].active
                 \/ threads'[w].is_paused # threads[w].is_paused)
                 => threads[w].lock = 0
          /\ (threads[w].pc = "cd_active" /\ threads'[w].pc # "cd_active")
                 => threads[w].lock = 0]_vars

\* C17: the slot of a started, completed or failed signal for link L
\* changes no item whose link is not exactly L.
C17_StatusEventHitsExactLink ==
    [][Deliver =>
          \A i \in DOMAIN list_widget :
              list_widget'[i] # list_widget[i] => LinkOf(i) = Head(events).link]_vars

\* C18: every speed signal is computed from a baseline recorded during the
\* same item, and from a byte count that did not decrease.
C18_MeterResetsPerItem ==
    \A i \in DOMAIN meter.rates :
        /\ meter.rates[i].base_item = meter.rates[i].item
        /\ meter.rates[i].bytes >= 0

\* C19: two consecutive speed signals are more than 0.5 s (5 ticks) of the
\* reported timestamps apart, and every update produced a file progress
\* signal.
C19_SpeedSignalsThrottled ==
    /\ \A i \in 1..(Len(meter.rates) - 1) :
           meter.rates[i + 1].time - meter.rates[i].time > 5
    /\ meter.progress = meter.updates

\* Two speed signals were emitted during one item, after an update that
\* emitted none
C19_Witness ==
    /\ Len(meter.rates) >= 2
    /\ meter.rates[1].item = meter.rates[2].item
    /\ meter.updates > Len(meter.rates)

\* C21: when closeEvent has saved the session, every item that was Pending
\* or Active is Pending in the queue load_session builds from the file,
\* and its link is among the links start_download would hand a worker.
C21_UnfinishedItemsReloadPending ==
    [][(CloseEvent /\ session_file' = JsonDump(SessionData(list_widget)))
           => LET items == LoadSession(session_file', <<>>)
                  links == LinksToDownload(items)
              IN \A i \in DOMAIN list_widget :
                     Icon(list_widget[i]) \in {PENDING, ACTIVE}
                         => /\ i \in DOMAIN items
                            /\ Icon(items[i]) = PENDING
                            /\ \E j \in DOMAIN links : links[j] = LinkOf(i)]_vars

\* C22: at most one worker thread is inside run() at any time, and a
\* finished signal that comes from a worker other than the one the window
\* refers to leaves the window's reference alone.
C22_AtMostOneWorkerRuns ==
    /\ [](Cardinality({w \in Workers : IsRunning(w)}) <= 1)
    /\ [][(Deliver /\ Head(events).sig = "finished"
                   /\ worker # 0 /\ Head(events).src # worker)
              => worker' = worker]_vars

\* C23: when a run has ended and the window reports "Completed!" (the
\* branch that also shows the tray notification), no stop was requested
\* and the worker reported every link of the run completed and none
\* failed.
C23_CompletedOnlyIfAllCompleted ==
    \A w \in Workers :
        LET t == threads[w] IN
        (RunEnded(w) /\ bar.format = <<"Completed!">>)
            => /\ t.active
               /\ \A m \in DOMAIN t.log : t.log[m][1] # "failed"
               /\ \A i \in DOMAIN t.links :
                      \E m \in DOMAIN t.log : t.log[m] = <<"completed", t.links[i], 0, 0>>

=============================================================================
